---- MODULE Spec2Model ----
(***************************************************************************)
(* The buffered-send arena of MPICH (bsendutil): an in-band, doubly linked *)
(* free list ("avail") and active list over a user supplied byte region,   *)
(* with attach / detach / isend / finalize as the public operations.       *)
(*                                                                         *)
(* Addresses and sizes are byte values.  A block header lives in `mem` at  *)
(* the block's start address; `mem` holds the headers that are reachable   *)
(* from an arena (a header absorbed by a merge is overwritten payload and  *)
(* is dropped).  The send engine is the bag `inflight` of the payload      *)
(* addresses it is still reading, one copy for every request it has not    *)
(* completed; a block's request field holds what the arena knows about its *)
(* handle.                                                                 *)
(***************************************************************************)
EXTENDS Integers, Sequences, FiniteSets, Bags, TLC

VARIABLES
    bsendbuffer,   \* slot -> the MPII_BsendBuffer the slot points to, or NullBuffer
    mem,           \* address -> MPII_Bsend_data_t header
    inflight,      \* bag of the payload addresses of the sends not yet completed
    lost,          \* those of them whose block no pointer leads to any more
    mutex,         \* MPIR_THREAD_VCI_BSEND_MUTEX: 0 or the owning thread
    pc,            \* thread -> position inside the operation it runs
    frame,         \* thread -> locals of the operation it runs
    ret,           \* the most recent return of a public operation
    donated,       \* user regions attached and not handed back by a detach
    finalized,     \* slots whose scope has been torn down
    attached_with  \* slot -> <<ptr, size>> of the latest successful attach

vars == <<bsendbuffer, mem, inflight, lost, mutex, pc, frame, ret, donated,
          finalized, attached_with>>

-----------------------------------------------------------------------------
(* Platform constants.                                                     *)

NULL == 0

\* value of a header field that the code never initialised
UNINIT == -1

\* sizeof(MPII_Bsend_data_t) - sizeof(double)
BSENDDATA_HEADER_TRUE_SIZE == 64

MAX_ALIGNMENT == 16

MIN_BUFFER_BLOCK == 8

\* header plus minimum payload
MPI_BSEND_OVERHEAD == 72

\* MPL_MAX(sizeof(void *), sizeof(double))
align_sz == 8

\* number of passes of the find loop in MPIR_Bsend_isend
NumPasses == 2

-----------------------------------------------------------------------------
(* Bounds of the model.                                                    *)

\* size of the large user buffers
BufSize == 240

Threads == {1, 2}

\* the threads that detach and tear down; every thread attaches and sends
Detachers == {1}

Slots == {"comm", "session", "process"}

\* the slots the operations of Spec are applied to
UsedSlots == {"process"}

\* start addresses of the user's buffers, each RegionLen bytes long
RegionLen == 4 * 1024

\* each thread owns one buffer, in a region of its own: the buffer of thread
\* 1 is aligned, the buffer of thread 2 is not
Misalign == [t \in Threads |-> IF t = 1 THEN 0 ELSE 3]

BufferOf(t) == t * RegionLen + Misalign[t]

\* the sizes a thread attaches its buffer with: thread 1 also tries the
\* smallest accepted size and the largest refused one
AttachSizes(t) ==
    IF t = 1 THEN {MPI_BSEND_OVERHEAD - 1, MPI_BSEND_OVERHEAD, BufSize}
    ELSE {BufSize}

\* the sizes attached where the two threads race: arenas of one block, that
\* of thread 2 large enough for a non-empty send, and a refused size
RaceAttachSizes(t) ==
    IF t = 1 THEN {MPI_BSEND_OVERHEAD - 1, MPI_BSEND_OVERHEAD}
    ELSE {BSENDDATA_HEADER_TRUE_SIZE + 48}

\* the lost sends in flight up to which a caller attaches a lost buffer again
MaxLost == 2

SendSizes == {0, 40}

RegionOf(addr) == (addr \div RegionLen) * RegionLen

-----------------------------------------------------------------------------
(* Memory helpers.                                                         *)

Put(m, addr, h) ==
    [x \in (DOMAIN m) \cup {addr} |-> IF x = addr THEN h ELSE m[x]]

Drop(m, addr) == [x \in (DOMAIN m) \ {addr} |-> m[x]]

DropRegion(m, r) == [x \in {y \in DOMAIN m : RegionOf(y) # r} |-> m[x]]

\* a zeroed MPII_BsendBuffer, as MPL_calloc returns it
ZeroBuffer ==
    [is_null |-> FALSE, origbuffer |-> NULL, origbuffer_size |-> 0,
     buffer |-> NULL, buffer_size |-> 0, avail |-> NULL, active |-> NULL]

\* the value of a slot whose pointer is NULL (no record behind it)
NullBuffer == [ZeroBuffer EXCEPT !.is_null = TRUE]

\* the blocks of a list, head first (defined for a finite acyclic list)
RECURSIVE ListFrom(_, _, _)
ListFrom(m, p, fuel) ==
    IF p = NULL \/ fuel = 0 \/ p \notin DOMAIN m THEN <<>>
    ELSE <<p>> \o ListFrom(m, m[p].next, fuel - 1)

Fuel(m) == Cardinality(DOMAIN m) + 1

AvailList(a, m) == ListFrom(m, a.avail, Fuel(m))

ActiveList(a, m) == ListFrom(m, a.active, Fuel(m))

SeqSet(s) == {s[i] : i \in 1..Len(s)}

\* the payloads of the arena's active blocks that are still being sent
Sending(a, m, f) == {m[p].msgbuf : p \in SeqSet(ActiveList(a, m))} \cap f

-----------------------------------------------------------------------------
(* Request handles.  The request field of a header is a record: state is   *)
(* "uninit" (never written), "live" (the handle MPID_Isend stored) or      *)
(* "stale" (the handle of a reclaimed block, which the code leaves there   *)
(* and never reads again); released says that the arena has given its      *)
(* reference back with MPIR_Request_free.                                  *)

NoRequest == [state |-> "uninit", released |-> FALSE]

StaleRequest == [state |-> "stale", released |-> TRUE]

\* the request field after an MPID_Isend that stored no request
NullRequest == [state |-> "null", released |-> FALSE]

\* MPID_Isend: a new request for the payload at msgbuf
NewRequest == [state |-> "live", released |-> FALSE]

\* the arena still holds its reference to the request of block p, or the
\* engine does: the object behind the handle exists
Alive(m, f, p) ==
    \/ m[p].msgbuf \in f
    \/ ~m[p].request.released

\* MPIR_Request_is_complete on the handle of block p.  Once the arena has
\* released a completed request the handle dangles (unless the caller holds
\* a reference of its own) and every read yields either answer: `stale`
\* holds the blocks whose dangling handle reads as complete in the walk of
\* the active list that is under way.
MPIR_Request_is_complete(m, f, p, stale) ==
    IF Alive(m, f, p) THEN m[p].msgbuf \notin f ELSE p \in stale

\* MPID_Isend never returns a persistent request
MPIR_Request_is_persistent(h) == FALSE

\* MPIR_Request_free on the handle of block p
MPIR_Request_free(m, p) == [m EXCEPT ![p].request.released = TRUE]

-----------------------------------------------------------------------------
(* The allocator: operators on an arena record `a` and the header memory   *)
(* `m`, each returning the pair it leaves behind as [a |-> ..., m |-> ...].*)

\* (mutant for C24) a search that returns the last block that fits
RECURSIVE FindFrom_last_fit(_, _, _, _)
FindFrom_last_fit(m, p, size, fuel) ==
    IF p = NULL \/ fuel = 0 THEN NULL
    ELSE LET later == FindFrom_last_fit(m, m[p].next, size, fuel - 1)
         IN IF later # NULL THEN later
            ELSE IF m[p].size >= size THEN p ELSE NULL

\* (mutant for C19) a search that wants a block larger than the request
RECURSIVE FindFrom_strictly_larger(_, _, _, _)
FindFrom_strictly_larger(m, p, size, fuel) ==
    IF p = NULL \/ fuel = 0 THEN NULL
    ELSE IF m[p].size > size THEN p
    ELSE FindFrom_strictly_larger(m, m[p].next, size, fuel - 1)

\* Find a slot in the avail buffer that can hold size bytes.
RECURSIVE FindFrom(_, _, _, _)
FindFrom(m, p, size, fuel) ==
    IF p = NULL \/ fuel = 0 THEN NULL
    ELSE IF m[p].size >= size THEN p
    ELSE FindFrom(m, m[p].next, size, fuel - 1)

MPIR_Bsend_find_buffer(a, m, size) == FindFrom(m, a.avail, size, Fuel(m))

\* (mutant for C27) a rounding that goes down to MAX_ALIGNMENT
AllocSize_rounded_down(size) == size - (size % MAX_ALIGNMENT)

\* alloc_size: size rounded up to MAX_ALIGNMENT
AllocSize(size) ==
    IF size % MAX_ALIGNMENT # 0
    THEN size + (MAX_ALIGNMENT - (size % MAX_ALIGNMENT))
    ELSE size

\* (mutant for C25) a split test that forgets the minimum block
CanSplit_without_minimum(h, alloc_size) ==
    alloc_size + BSENDDATA_HEADER_TRUE_SIZE <= h.size

\* Is there enough space left to create a new block?
CanSplit(h, alloc_size) ==
    alloc_size + BSENDDATA_HEADER_TRUE_SIZE + MIN_BUFFER_BLOCK <= h.size

\* the header of the remainder carved off p; request and count are not set
NewBlock(m, p, alloc_size) ==
    LET total == m[p].total_size - alloc_size - BSENDDATA_HEADER_TRUE_SIZE
        newp  == p + BSENDDATA_HEADER_TRUE_SIZE + alloc_size
    IN [size |-> total - BSENDDATA_HEADER_TRUE_SIZE, total_size |-> total,
        next |-> m[p].next, prev |-> p, request |-> NoRequest,
        msgbuf |-> newp + BSENDDATA_HEADER_TRUE_SIZE, count |-> UNINIT]

\* first half of take_buffer: break p into used and remainder
SplitBlock(m, p, alloc_size) ==
    LET newp == p + BSENDDATA_HEADER_TRUE_SIZE + alloc_size
        m1 == Put(m, newp, NewBlock(m, p, alloc_size))
        m2 == IF m[p].next # NULL THEN [m1 EXCEPT ![m[p].next].prev = newp]
              ELSE m1
    IN [m2 EXCEPT ![p].next = newp,
                  ![p].total_size = newp - p,
                  ![p].size = (newp - p) - BSENDDATA_HEADER_TRUE_SIZE]

\* second half of take_buffer: remove p from avail, push it on active
MoveToActive(a, m, p) ==
    LET prev == m[p].prev
        m1 == IF prev # NULL THEN [m EXCEPT ![prev].next = m[p].next] ELSE m
        a1 == IF prev # NULL THEN a ELSE [a EXCEPT !.avail = m[p].next]
        m2 == IF m[p].next # NULL THEN [m1 EXCEPT ![m[p].next].prev = m[p].prev]
              ELSE m1
        m3 == IF a1.active # NULL THEN [m2 EXCEPT ![a1.active].prev = p] ELSE m2
    IN [a |-> [a1 EXCEPT !.active = p],
        m |-> [m3 EXCEPT ![p].next = a1.active, ![p].prev = NULL]]

MPIR_Bsend_take_buffer(a, m, p, size) ==
    LET alloc_size == AllocSize(size)
        m1 == IF CanSplit(m[p], alloc_size) THEN SplitBlock(m, p, alloc_size)
              ELSE m
    IN MoveToActive(a, m1, p)

\* (mutant for C5) a walk that stops at the head of the free list
AvailWalk_at_head(m, avail, avail_prev, p, fuel) ==
    [avail |-> avail, avail_prev |-> avail_prev]

\* Find avail_prev, avail, such that p is between them.
RECURSIVE AvailWalk(_, _, _, _, _)
AvailWalk(m, avail, avail_prev, p, fuel) ==
    IF avail = NULL \/ fuel = 0 \/ avail > p
    THEN [avail |-> avail, avail_prev |-> avail_prev]
    ELSE AvailWalk(m, m[avail].next, avail, p, fuel - 1)

\* (mutant for C3) an unlink that leaves the back link of the next block
UnlinkActive_one_way(a, m, p) ==
    LET prev == m[p].prev
        m1 == IF prev # NULL THEN [m EXCEPT ![prev].next = m[p].next] ELSE m
        a1 == IF prev # NULL THEN a ELSE [a EXCEPT !.active = m[p].next]
    IN [a |-> a1, m |-> m1]

\* Remove the segment from the active list
UnlinkActive(a, m, p) ==
    LET prev == m[p].prev
        m1 == IF prev # NULL THEN [m EXCEPT ![prev].next = m[p].next] ELSE m
        a1 == IF prev # NULL THEN a ELSE [a EXCEPT !.active = m[p].next]
        m2 == IF m[p].next # NULL THEN [m1 EXCEPT ![m[p].next].prev = prev]
              ELSE m1
    IN [a |-> a1, m |-> m2]

\* Try to merge p with the next block
MergeNext(m, p, avail) ==
    IF avail # NULL
    THEN IF p + m[p].total_size = avail
         THEN LET t  == m[p].total_size + m[avail].total_size
                  m1 == [m EXCEPT ![p].total_size = t,
                                  ![p].size = t - BSENDDATA_HEADER_TRUE_SIZE,
                                  ![p].next = m[avail].next]
                  m2 == IF m[avail].next # NULL
                        THEN [m1 EXCEPT ![m[avail].next].prev = p] ELSE m1
              IN Drop(m2, avail)
         ELSE [m EXCEPT ![p].next = avail, ![avail].prev = p]
    ELSE [m EXCEPT ![p].next = NULL]

\* Try to merge p with the previous block
MergePrev(a, m, p, avail_prev) ==
    IF avail_prev # NULL
    THEN IF avail_prev + m[avail_prev].total_size = p
         THEN LET t  == m[avail_prev].total_size + m[p].total_size
                  m1 == [m EXCEPT ![avail_prev].total_size = t,
                                  ![avail_prev].size = t - BSENDDATA_HEADER_TRUE_SIZE,
                                  ![avail_prev].next = m[p].next]
                  m2 == IF m[p].next # NULL
                        THEN [m1 EXCEPT ![m[p].next].prev = avail_prev] ELSE m1
              IN [a |-> a, m |-> Drop(m2, p)]
         ELSE [a |-> a,
               m |-> [m EXCEPT ![avail_prev].next = p, ![p].prev = avail_prev]]
    ELSE [a |-> [a EXCEPT !.avail = p], m |-> [m EXCEPT ![p].prev = NULL]]

\* Add block p to the free list.  Merge into adjacent blocks.
MPIR_Bsend_free_segment(a, m, p) ==
    LET u == UnlinkActive(a, m, p)
        w == AvailWalk(u.m, a.avail, NULL, p, Fuel(m))
        n == MergeNext(u.m, p, w.avail)
    IN MergePrev(u.a, n, p, w.avail_prev)

\* what a reclaimed block's header holds of its finished send: the handle
\* dangles and the byte count is dead (the driver resets it before use)
Released(m, p) ==
    IF p \in DOMAIN m THEN [m EXCEPT ![p].request = StaleRequest, ![p].count = UNINIT]
    ELSE m

\* The walk of MPIR_Bsend_progress from block `active` on: reclaim every
\* block whose request reads as complete and release the request.
RECURSIVE ProgressFrom(_, _, _, _, _, _)
ProgressFrom(a, m, f, active, stale, fuel) ==
    IF active = NULL \/ fuel = 0 THEN [a |-> a, m |-> m]
    ELSE LET next_active == m[active].next
         IN IF MPIR_Request_is_complete(m, f, active, stale)
            THEN LET g == MPIR_Bsend_free_segment(a, m, active)
                     m1 == IF MPIR_Request_is_persistent(m[active].request)
                           THEN g.m ELSE Released(g.m, active)
                 IN ProgressFrom(g.a, m1, f, next_active, stale, fuel - 1)
            ELSE ProgressFrom(a, m, f, next_active, stale, fuel - 1)

MPIR_Bsend_progress(a, m, f, stale) ==
    ProgressFrom(a, m, f, a.active, stale, Fuel(m))

-----------------------------------------------------------------------------
(* The operations.  A thread is "idle" between calls; `ret` records the    *)
(* return of the operation that finished last.                             *)

\* what a thread inside a call holds: the slot and the arguments of an attach,
\* the block a drain stands at, whether the call is a finalize, whether the
\* record its local pointer refers to was replaced in the slot (lost), and
\* then what that record holds (own)
NoFrame ==
    [slot |-> "none", buffer |-> NULL, size |-> 0, p |-> NULL, fin |-> FALSE,
     lost |-> FALSE, own |-> NullBuffer]

\* what a call returns (code, and for detach the region in ptr and size) and
\* what it did on the way: the searches and polls of a send, the blocks it
\* reclaimed, the waits of a detach.  For a send that reached the search,
\* want is its packed size and retried says that it repeats the send the
\* call before it refused for lack of space.
Return(op, slot, code) ==
    [op |-> op, slot |-> slot, code |-> code, ptr |-> NULL, size |-> 0,
     finds |-> 0, polls |-> 0, reclaimed |-> 0, waits |-> 0,
     want |-> 0, retried |-> FALSE]

NoReturn == Return("none", "none", "none")

Init ==
    /\ bsendbuffer = [s \in Slots |-> NullBuffer]
    /\ mem = [x \in {} |-> 0]
    /\ inflight = EmptyBag
    /\ lost = EmptyBag
    /\ mutex = 0
    /\ pc = [t \in Threads |-> "idle"]
    /\ frame = [t \in Threads |-> NoFrame]
    /\ ret = NoReturn
    /\ donated = {}
    /\ finalized = {}
    /\ attached_with = [s \in Slots |-> <<NULL, 0>>]

\* the sends in flight whose request a block of `mem` holds the handle of:
\* of the sends out of one payload address all but the lost ones, which is
\* one at most
Tracked ==
    {b \in BagToSet(inflight) : CopiesIn(b, inflight) > CopiesIn(b, lost)}

\* the sends in flight out of the arena of record b
Pending(b) == SetToBag(Sending(b, mem, Tracked))

\* a scope teardown is running: no other call is made during it
Finalizing == \E u \in Threads : frame[u].fin

\* the calls a thread may make on slot s
MayCall(t, s) ==
    /\ pc[t] = "idle"
    /\ ~Finalizing
    /\ s \notin finalized
    /\ "process" \notin finalized

\* The first block of a freshly attached buffer
FirstBlock(buffer, buffer_size) ==
    [size |-> buffer_size - BSENDDATA_HEADER_TRUE_SIZE,
     total_size |-> buffer_size, next |-> NULL, prev |-> NULL,
     request |-> NoRequest, msgbuf |-> buffer + BSENDDATA_HEADER_TRUE_SIZE,
     count |-> UNINIT]

\* offset that makes the buffer aligned to align_sz
AlignOffset(buffer) ==
    IF buffer % align_sz # 0 THEN align_sz - (buffer % align_sz) ELSE 0

\* (mutant for C18) a check that never finds a buffer
AlreadyAttached_never(b) == FALSE

\* the first error check of attach: the record has a buffer
AlreadyAttached(b) == b.buffer # NULL

\* (mutant for C17) a size check that is off by one
TooSmall_below_by_one(buffer_size) == buffer_size < MPI_BSEND_OVERHEAD - 1

\* the second error check of attach
TooSmall(buffer_size) == buffer_size < MPI_BSEND_OVERHEAD

\* the slot holds a record with a buffer
HasArena(b) == ~b.is_null /\ b.buffer # NULL

\* the caller attaches again a buffer that no detach handed back: the
\* detach of slot s has just returned success and no slot holds the buffer,
\* because an attach stored over its record or overwrote it (no scope was
\* torn down, so it is not the buffer of such a scope).  The caller does so
\* while at most MaxLost lost sends are in flight, which bounds their number.
Forsaken(s, buffer) ==
    /\ ret.op = "detach"
    /\ ret.slot = s
    /\ ret.code = "SUCCESS"
    /\ finalized = {}
    /\ BagCardinality(lost) <= MaxLost
    /\ \A x \in Slots :
          HasArena(bsendbuffer[x]) =>
             RegionOf(bsendbuffer[x].origbuffer) # RegionOf(buffer)

\* MPIR_Bsend_attach from its entry: the test of the slot pointer.  When the
\* pointer is NULL the thread goes to allocate a record, else to the read of
\* the pointer; no lock is held, so the other thread can run in between.
AttachCall(t, s, buffer, buffer_size) ==
    /\ MayCall(t, s)
    /\ buffer = BufferOf(t)
    /\ RegionOf(buffer) \notin donated \/ Forsaken(s, buffer)
    /\ pc' = [pc EXCEPT ![t] = IF bsendbuffer[s].is_null THEN "attach_calloc"
                                ELSE "attach_read"]
    /\ frame' = [frame EXCEPT ![t] = [NoFrame EXCEPT !.slot = s,
                     !.buffer = buffer, !.size = buffer_size]]
    /\ ret' = NoReturn
    /\ UNCHANGED <<bsendbuffer, mem, inflight, lost, mutex, donated, finalized,
                   attached_with>>

\* thread u holds a local pointer to the record of slot s: it has read the
\* slot in attach, or it is in the drain of detach
PointsTo(u, s) ==
    /\ pc[u] \in {"attach_check", "attach_cs", "detach_wait"}
    /\ frame[u].slot = s
    /\ ~frame[u].lost

\* thread u is in a drain that walks the blocks of the record of slot s
Drains(u, s) == pc[u] = "detach_wait" /\ PointsTo(u, s)

\* the frames after thread t replaced the record of slot s: a thread that
\* holds a pointer to the old record keeps it, with what the record held
Orphaned(t, s) ==
    [u \in Threads |->
        IF u # t /\ PointsTo(u, s)
        THEN [frame[u] EXCEPT !.lost = TRUE,
                 !.own = IF pc[u] = "attach_cs" THEN NullBuffer
                         ELSE bsendbuffer[s]]
        ELSE frame[u]]

\* the record the local pointer of thread t refers to
RecordOf(t, s) == IF frame[t].lost THEN frame[t].own ELSE bsendbuffer[s]

\* the store of the zeroed record MPL_calloc returned.  It takes no lock and
\* replaces whatever the slot holds by then: a record another thread stored
\* meanwhile is leaked, with the arena attached to it.  The store is all
\* that happens: the sends out of the leaked arena stay in flight until the
\* engine completes them.  When no drain is walking the arena's blocks no
\* pointer leads to its headers any more: they leave the memory the model
\* follows, and the sends they hold the handles of are lost.
AttachStore(t) ==
    /\ pc[t] = "attach_calloc"
    /\ LET s == frame[t].slot
           old == bsendbuffer[s]
           gone == HasArena(old) /\ \A u \in Threads : ~Drains(u, s)
       IN /\ bsendbuffer' = [bsendbuffer EXCEPT ![s] = ZeroBuffer]
          /\ mem' = IF gone THEN DropRegion(mem, RegionOf(old.buffer)) ELSE mem
          /\ lost' = IF gone THEN lost (+) Pending(old) ELSE lost
          /\ frame' = Orphaned(t, s)
    /\ pc' = [pc EXCEPT ![t] = "attach_read"]
    /\ ret' = NoReturn
    /\ UNCHANGED <<inflight, mutex, donated, finalized, attached_with>>

\* the read of the slot pointer into the local pointer of attach: from here
\* on the thread works on the record the slot holds now
AttachRead(t) ==
    /\ pc[t] = "attach_read"
    /\ pc' = [pc EXCEPT ![t] = "attach_check"]
    /\ ret' = NoReturn
    /\ UNCHANGED <<bsendbuffer, mem, inflight, lost, mutex, frame, donated,
                   finalized, attached_with>>

\* the error checks of attach on the record its local pointer refers to, and
\* the way to the critical section, which writes every field of the record
AttachCheck(t) ==
    /\ pc[t] = "attach_check"
    /\ LET s == frame[t].slot
           b == RecordOf(t, s)
       IN IF AlreadyAttached(b)
          THEN /\ ret' = Return("attach", s, "BUFFER_ALREADY_ATTACHED")
               /\ pc' = [pc EXCEPT ![t] = "idle"]
               /\ frame' = [frame EXCEPT ![t] = NoFrame]
          ELSE IF TooSmall(frame[t].size)
          THEN /\ ret' = [Return("attach", s, "BUFFER_TOO_SMALL") EXCEPT
                             !.size = frame[t].size]
               /\ pc' = [pc EXCEPT ![t] = "idle"]
               /\ frame' = [frame EXCEPT ![t] = NoFrame]
          ELSE /\ pc' = [pc EXCEPT ![t] = "attach_cs"]
               /\ frame' = [frame EXCEPT ![t].own = NullBuffer]
               /\ ret' = NoReturn
    /\ UNCHANGED <<bsendbuffer, mem, inflight, lost, mutex, donated, finalized,
                   attached_with>>

\* the arena record attach leaves behind
AttachedBuffer(b, buffer, buffer_size) ==
    LET offset == AlignOffset(buffer)
    IN [b EXCEPT !.origbuffer = buffer, !.origbuffer_size = buffer_size,
                 !.buffer = buffer + offset, !.buffer_size = buffer_size - offset,
                 !.avail = buffer + offset, !.active = NULL]

\* MPIR_Bsend_attach inside the critical section: it writes the fields of
\* the record and the first header, nothing else.  When the slot was attached
\* meanwhile, the record is overwritten: no pointer leads to the headers of
\* the old arena any more and they leave the memory the model follows; its
\* sends stay in flight and are lost.  When the thread's record is no longer the slot's,
\* the attach fills the leaked record: it succeeds and the slot does not
\* change.
AttachBody(t) ==
    /\ pc[t] = "attach_cs"
    /\ mutex = 0
    /\ LET s == frame[t].slot
           buffer == frame[t].buffer
           buffer_size == frame[t].size
           old == bsendbuffer[s]
           a == AttachedBuffer(old, buffer, buffer_size)
           m0 == IF old.buffer # NULL THEN DropRegion(mem, RegionOf(old.buffer)) ELSE mem
       IN /\ IF frame[t].lost
             THEN UNCHANGED <<bsendbuffer, mem, lost>>
             ELSE /\ bsendbuffer' = [bsendbuffer EXCEPT ![s] = a]
                  /\ mem' = Put(m0, a.buffer, FirstBlock(a.buffer, buffer_size))
                  /\ lost' = lost (+) Pending(old)
          /\ attached_with' = [attached_with EXCEPT ![s] = <<buffer, buffer_size>>]
          /\ donated' = donated \cup {RegionOf(buffer)}
          /\ ret' = [Return("attach", s, "SUCCESS") EXCEPT
                       !.ptr = buffer, !.size = buffer_size]
    /\ pc' = [pc EXCEPT ![t] = "idle"]
    /\ frame' = [frame EXCEPT ![t] = NoFrame]
    /\ UNCHANGED <<inflight, mutex, finalized>>

\* MPID_Wait on the handle of block p can return success: the send is
\* complete
WaitReturns(m, f, p) == m[p].msgbuf \notin f

\* the end of MPIR_Bsend_detach: hand the original buffer of the record back
\* (and no other), reset the record the local pointer refers to.  With fin,
\* MPIR_Bsend_finalize then frees the record.
DetachFinish(t, s, fin, waits) ==
    LET b == RecordOf(t, s)
    IN /\ ret' = IF fin THEN Return("finalize", s, "SUCCESS")
                 ELSE [Return("detach", s, "SUCCESS") EXCEPT
                          !.ptr = b.origbuffer, !.size = b.origbuffer_size,
                          !.waits = waits]
       /\ bsendbuffer' = IF frame[t].lost THEN bsendbuffer
                         ELSE [bsendbuffer EXCEPT
                                  ![s] = IF fin THEN NullBuffer ELSE ZeroBuffer]
       /\ mem' = IF b.buffer # NULL THEN DropRegion(mem, RegionOf(b.buffer)) ELSE mem
       /\ donated' = IF b.origbuffer # NULL
                     THEN donated \ {RegionOf(b.origbuffer)} ELSE donated
       /\ finalized' = IF fin THEN finalized \cup {s} ELSE finalized
       /\ attached_with' = [attached_with EXCEPT ![s] = <<NULL, 0>>]
       /\ mutex' = 0
       /\ pc' = [pc EXCEPT ![t] = "idle"]
       /\ frame' = [frame EXCEPT ![t] = NoFrame]

\* MPIR_Bsend_detach from its entry to the first wait (or to its return
\* when there is nothing to wait for)
DetachEnter(t, s, fin) ==
    /\ mutex = 0
    /\ IF bsendbuffer[s].is_null
       THEN /\ ret' = Return("detach", s, "SUCCESS")
            /\ UNCHANGED <<bsendbuffer, mem, donated, finalized, mutex, pc, frame,
                           attached_with>>
       ELSE IF bsendbuffer[s].active # NULL
       THEN /\ mutex' = t
            /\ pc' = [pc EXCEPT ![t] = "detach_wait"]
            /\ frame' = [frame EXCEPT ![t] = [NoFrame EXCEPT !.slot = s,
                             !.p = bsendbuffer[s].active, !.fin = fin]]
            /\ ret' = NoReturn
            /\ UNCHANGED <<bsendbuffer, mem, donated, finalized, attached_with>>
       ELSE DetachFinish(t, s, fin, 0)
    /\ UNCHANGED <<inflight, lost>>

Detach(t, s) ==
    /\ MayCall(t, s)
    /\ DetachEnter(t, s, FALSE)

\* one turn of the drain loop of MPIR_Bsend_detach whose wait succeeds
DetachWait(t) ==
    /\ pc[t] = "detach_wait"
    /\ LET s == frame[t].slot
           p == frame[t].p
       IN /\ WaitReturns(mem, Tracked, p)
          /\ IF mem[p].next # NULL
             THEN /\ mem' = MPIR_Request_free(mem, p)
                  /\ frame' = [frame EXCEPT ![t].p = mem[p].next]
                  /\ ret' = NoReturn
                  /\ UNCHANGED <<bsendbuffer, donated, finalized, mutex, pc,
                                 attached_with>>
             ELSE DetachFinish(t, s, frame[t].fin,
                               Len(ActiveList(RecordOf(t, s), mem)))
    /\ UNCHANGED <<inflight, lost>>

\* one turn of the drain loop whose wait fails: detach leaves through
\* fn_fail, which releases the mutex and nothing else, so the sends stay in
\* flight; MPIR_Bsend_finalize ignores the error and frees the record.  When
\* the record was replaced in the slot during the drain, or is freed by
\* finalize, no pointer leads to the headers of the arena any more once
\* detach has left: they leave the memory the model follows and the sends
\* still in flight out of the arena are lost.
DetachWaitFails(t) ==
    /\ pc[t] = "detach_wait"
    /\ LET s == frame[t].slot
           region == RegionOf(frame[t].own.buffer)
       IN IF frame[t].fin
          THEN /\ ret' = Return("finalize", s, "SUCCESS")
               /\ bsendbuffer' = [bsendbuffer EXCEPT ![s] = NullBuffer]
               /\ mem' = DropRegion(mem, RegionOf(bsendbuffer[s].buffer))
               /\ lost' = lost (+) Pending(bsendbuffer[s])
               /\ finalized' = finalized \cup {s}
               /\ attached_with' = [attached_with EXCEPT ![s] = <<NULL, 0>>]
          ELSE /\ ret' = Return("detach", s, "WAIT_FAILED")
               /\ mem' = IF frame[t].lost THEN DropRegion(mem, region) ELSE mem
               /\ lost' = IF frame[t].lost THEN lost (+) Pending(frame[t].own)
                          ELSE lost
               /\ UNCHANGED <<bsendbuffer, finalized, attached_with>>
    /\ mutex' = 0
    /\ pc' = [pc EXCEPT ![t] = "idle"]
    /\ frame' = [frame EXCEPT ![t] = NoFrame]
    /\ UNCHANGED <<inflight, donated>>

\* MPIR_Bsend_finalize: detach if a buffer is attached, free the record
Finalize(t, s) ==
    /\ \A u \in Threads : pc[u] = "idle"
    /\ "process" \notin finalized \/ s = "process"
    /\ IF bsendbuffer[s].is_null
       THEN /\ ret' = Return("finalize", s, "SUCCESS")
            /\ finalized' = finalized \cup {s}
            /\ UNCHANGED <<bsendbuffer, mem, inflight, lost, mutex, pc, frame,
                           donated, attached_with>>
       ELSE IF bsendbuffer[s].buffer = NULL
       THEN /\ ret' = Return("finalize", s, "SUCCESS")
            /\ bsendbuffer' = [bsendbuffer EXCEPT ![s] = NullBuffer]
            /\ finalized' = finalized \cup {s}
            /\ attached_with' = [attached_with EXCEPT ![s] = <<NULL, 0>>]
            /\ UNCHANGED <<mem, inflight, lost, mutex, pc, frame, donated>>
       ELSE DetachEnter(t, s, TRUE)

-----------------------------------------------------------------------------
(* The send driver.  Its body runs inside the critical section without     *)
(* blocking, so it is one step; what the collaborators answer inside it is *)
(* drawn by the action: whether each progress poll succeeds and which      *)
(* sends it completes, what a dangling handle reads as in each walk of the *)
(* active list, whether pack and MPID_Isend succeed, how many bytes pack   *)
(* wrote.                                                                  *)

\* (mutant for C11) a resolution that prefers the process slot
ResolveSlot_process_first(bb) ==
    IF ~bb["process"].is_null THEN "process"
    ELSE IF ~bb["session"].is_null THEN "session"
    ELSE "comm"

\* the slot MPIR_Bsend_isend resolves; the communicator has a session
ResolveSlot(bb) ==
    IF ~bb["comm"].is_null THEN "comm"
    ELSE IF ~bb["session"].is_null THEN "session"
    ELSE "process"

\* (mutant for C16) a poll that is not followed by the reclaim
MPIR_Bsend_check_active_poll_only(H, poll, stale) ==
    IF H.a.active # NULL
    THEN IF ~poll.ok
         THEN [H EXCEPT !.err = TRUE, !.polls = @ + 1]
         ELSE [H EXCEPT !.f = H.f \ poll.done, !.err = FALSE, !.polls = @ + 1]
    ELSE [H EXCEPT !.err = FALSE]

\* MPIR_Bsend_check_active: poll once, then reclaim.  poll.ok: whether
\* MPID_Progress_test succeeds; poll.done: the sends it completes.
MPIR_Bsend_check_active(H, poll, stale) ==
    IF H.a.active # NULL
    THEN IF ~poll.ok
         THEN [H EXCEPT !.err = TRUE, !.polls = @ + 1]
         ELSE LET f1 == H.f \ poll.done
                  g  == MPIR_Bsend_progress(H.a, H.m, f1, stale)
              IN [H EXCEPT !.a = g.a, !.m = g.m, !.f = f1, !.err = FALSE,
                           !.polls = @ + 1,
                           !.reclaimed = @ + Len(ActiveList(H.a, H.m))
                                           - Len(ActiveList(g.a, g.m))]
    ELSE [H EXCEPT !.err = FALSE]

\* the byte count a failed call leaves in a block that stays free is dead:
\* the next call resets it before reading it
Abandoned(m, p) == [m EXCEPT ![p].count = UNINIT]

\* (mutant for C9) a driver that takes the block before it looks at the
\* result of MPID_Isend
PackAndSend_take_first(H, p, msg) ==
    LET m0 == [H.m EXCEPT ![p].count = 0]
        count == IF msg.dtype # "MPI_PACKED" THEN msg.actual ELSE msg.packsize
        m1 == [m0 EXCEPT ![p].count = count]
        m2 == [m1 EXCEPT ![p].request = NewRequest]
        tk == MPIR_Bsend_take_buffer(H.a, m2, p, m2[p].count)
    IN IF msg.dtype # "MPI_PACKED" /\ ~msg.pack_ok
       THEN [H EXCEPT !.m = Abandoned(m0, p), !.code = "PACK_FAILED"]
       ELSE IF ~msg.isend_ok
       THEN [H EXCEPT !.a = tk.a, !.m = tk.m, !.code = "SEND_INIT_FAILED"]
       ELSE [H EXCEPT !.a = tk.a, !.m = tk.m, !.f = @ \cup {m2[p].msgbuf},
                      !.code = "SUCCESS", !.p = p]

\* lines 233-272: pack into the found block p, start the send, take p.  The
\* block is taken only when MPID_Isend stored a request (line 258); when it
\* stored none the call succeeds and the block stays free.
PackAndSend(H, p, msg) ==
    LET m0 == [H.m EXCEPT ![p].count = 0]
        count == IF msg.dtype # "MPI_PACKED" THEN msg.actual ELSE msg.packsize
        m1 == [m0 EXCEPT ![p].count = count]
        m2 == [m1 EXCEPT ![p].request = NewRequest]
        tk == MPIR_Bsend_take_buffer(H.a, m2, p, m2[p].count)
    IN IF msg.dtype # "MPI_PACKED" /\ ~msg.pack_ok
       THEN [H EXCEPT !.m = Abandoned(m0, p), !.code = "PACK_FAILED"]
       ELSE IF ~msg.isend_ok
       THEN [H EXCEPT !.m = Abandoned(m1, p), !.code = "SEND_INIT_FAILED"]
       ELSE IF ~msg.request_ok
       THEN [H EXCEPT !.m = Abandoned([m1 EXCEPT ![p].request = NullRequest], p),
                      !.code = "SUCCESS"]
       ELSE [H EXCEPT !.a = tk.a, !.m = tk.m, !.f = @ \cup {m2[p].msgbuf},
                      !.code = "SUCCESS", !.p = p]

\* (mutant for C10) a loop that polls and searches once more
RECURSIVE FindPasses_once_more(_, _, _, _, _)
FindPasses_once_more(H, pass, msg, poll, stale) ==
    LET p  == MPIR_Bsend_find_buffer(H.a, H.m, msg.packsize)
        H1 == [H EXCEPT !.finds = @ + 1]
    IN IF p # NULL THEN PackAndSend(H1, p, msg)
       ELSE IF pass >= NumPasses
       THEN [H1 EXCEPT !.code = "NO_BUFFER_SPACE"]
       ELSE FindPasses_once_more(MPIR_Bsend_check_active(H1, poll, stale),
                                 pass + 1, msg, poll, stale)

\* the loop of lines 224-282, from pass `pass` on
RECURSIVE FindPasses(_, _, _, _, _)
FindPasses(H, pass, msg, poll, stale) ==
    LET p  == MPIR_Bsend_find_buffer(H.a, H.m, msg.packsize)
        H1 == [H EXCEPT !.finds = @ + 1]
    IN IF p # NULL THEN PackAndSend(H1, p, msg)
       ELSE IF pass >= NumPasses - 1
       THEN [H1 EXCEPT !.code = "NO_BUFFER_SPACE"]
       ELSE FindPasses(MPIR_Bsend_check_active(H1, poll, stale),
                       pass + 1, msg, poll, stale)

\* the state of a call at its entry to the arena a
Entry(a, m, f) ==
    [a |-> a, m |-> m, f |-> f, err |-> FALSE, code |-> "none",
     p |-> NULL, finds |-> 0, polls |-> 0, reclaimed |-> 0]

\* pack never writes more than MPIR_Pack_size announced
ActualBytes(packsize) == {packsize, packsize - (packsize \div 8)}

\* the calls of the driver: a packed message of packsize bytes, or a typed
\* one whose pack fails or writes fewer bytes than announced.  MPID_Isend
\* keeps its contract: when it succeeds it has stored a request (request_ok).  The failures
\* are drawn for the non-empty messages; the non-empty messages that get sent
\* are the typed ones (a packed one differs only in the byte count it stores).
Messages ==
    {x \in [dtype : {"MPI_PACKED", "TYPED"}, packsize : SendSizes,
            actual : UNION {ActualBytes(n) : n \in SendSizes},
            pack_ok : BOOLEAN, isend_ok : BOOLEAN, request_ok : {TRUE}] :
        /\ x.actual \in ActualBytes(x.packsize)
        /\ x.dtype = "MPI_PACKED" => x.pack_ok /\ x.actual = x.packsize
        /\ x.dtype = "TYPED" => ~x.pack_ok \/ x.actual < x.packsize
        /\ ~x.pack_ok => x.isend_ok /\ x.actual = x.packsize
        /\ ~x.pack_ok \/ ~x.isend_ok => x.packsize > 0 /\ x.actual = x.packsize
        /\ (x.dtype = "MPI_PACKED" /\ x.isend_ok) => x.packsize = 0}

\* what a progress poll can answer: it fails, or it succeeds and completes
\* some of the sends
NoPoll == [ok |-> FALSE, done |-> {}]

Polls(a, m, f) ==
    {NoPoll} \cup {[ok |-> TRUE, done |-> d] : d \in SUBSET Sending(a, m, f)}

\* the active blocks whose request object no longer exists
Dangling(a, m, f) == {p \in SeqSet(ActiveList(a, m)) : ~Alive(m, f, p)}

OkPoll == [ok |-> TRUE, done |-> {}]

\* the first pass of the call H finds no block and there is something to
\* poll before the second
SecondPoll(H, msg) ==
    /\ MPIR_Bsend_find_buffer(H.a, H.m, msg.packsize) = NULL
    /\ H.a.active # NULL

\* the step before this call was a send of packsize bytes on slot s that
\* returned for lack of space
Refused(s, packsize) ==
    /\ ret.op = "isend"
    /\ ret.slot = s
    /\ ret.code = "NO_BUFFER_SPACE"
    /\ ret.want = packsize

\* MPIR_Bsend_isend called by some idle thread with one of the messages M,
\* from the acquisition of the mutex to its return.  The call waits at its
\* entry for as long as another thread holds the mutex.  The walk before the
\* first search and the walk between the two searches each read the handles
\* anew: stale1 and stale2 hold the blocks whose dangling handle reads as
\* complete in the one and in the other.
IsendWith(M) ==
    /\ {t \in Threads : pc[t] = "idle"} # {}
    /\ ~Finalizing
    /\ "process" \notin finalized
    /\ mutex = 0
    /\ LET s == ResolveSlot(bsendbuffer)
           a == bsendbuffer[s]
       IN IF a.is_null
          THEN /\ ret' = Return("isend", s, "NO_BUFFER_ATTACHED")
               /\ UNCHANGED <<bsendbuffer, mem, inflight>>
          ELSE \E stale1 \in SUBSET Dangling(a, mem, Tracked),
                    poll1 \in IF a.active # NULL THEN {NoPoll, OkPoll} ELSE {NoPoll} :
                 LET H1 == MPIR_Bsend_check_active(Entry(a, mem, Tracked), poll1, stale1)
                 IN IF H1.err
                    THEN /\ ret' = [Return("isend", s, "PROGRESS_FAILED") EXCEPT
                                          !.polls = H1.polls]
                         /\ UNCHANGED <<bsendbuffer, mem, inflight>>
                    ELSE \E msg \in M :
                           \E poll2 \in IF SecondPoll(H1, msg)
                                         THEN Polls(H1.a, H1.m, H1.f) ELSE {NoPoll},
                              stale2 \in IF SecondPoll(H1, msg)
                                          THEN SUBSET Dangling(H1.a, H1.m, H1.f)
                                          ELSE {{}} :
                             LET H == FindPasses(H1, 0, msg, poll2, stale2)
                             IN /\ ret' = [Return("isend", s, H.code) EXCEPT
                                                 !.finds = H.finds, !.polls = H.polls,
                                                 !.reclaimed = H.reclaimed,
                                                 !.want = msg.packsize,
                                                 !.retried = Refused(s, msg.packsize)]
                                /\ bsendbuffer' = [bsendbuffer EXCEPT ![s] = H.a]
                                /\ mem' = H.m
                                /\ inflight' = lost (+) SetToBag(H.f)
    /\ UNCHANGED <<lost, mutex, pc, frame, donated, finalized, attached_with>>

Isend == IsendWith(Messages)

-----------------------------------------------------------------------------
(* The send engine and the caller's handles.                               *)

\* the engine completes a send of the payload at b: the one whose handle a
\* block holds, or one of the lost ones
Complete(b) ==
    /\ BagIn(b, inflight)
    /\ inflight' = inflight (-) SetToBag({b})
    /\ \/ b \in Tracked /\ lost' = lost
       \/ BagIn(b, lost) /\ lost' = lost (-) SetToBag({b})
    /\ ret' = NoReturn
    /\ UNCHANGED <<bsendbuffer, mem, mutex, pc, frame, donated, finalized,
                   attached_with>>

Next ==
    \/ \E t \in Threads, s \in UsedSlots : \E n \in RaceAttachSizes(t) :
          AttachCall(t, s, BufferOf(t), n)
    \/ \E t \in Threads : AttachStore(t)
    \/ \E t \in Threads : AttachRead(t)
    \/ \E t \in Threads : AttachCheck(t)
    \/ \E t \in Threads : AttachBody(t)
    \/ \E t \in Detachers, s \in UsedSlots : Detach(t, s)
    \/ \E t \in Threads : DetachWait(t)
    \/ \E t \in Threads : DetachWaitFails(t)
    \/ \E t \in Detachers, s \in UsedSlots : Finalize(t, s)
    \/ Isend
    \/ \E b \in BagToSet(inflight) : Complete(b)

Spec == Init /\ [][Next]_vars

\* one call at a time: a call starts when no other call is running
Sequential == \A u \in Threads : pc[u] = "idle"

\* the sizes attached when all three slots are in use: arenas of one block,
\* that of thread 2 large enough for a non-empty send, and a refused size
SlotAttachSizes(t) ==
    IF t = 1 THEN {MPI_BSEND_OVERHEAD - 1, MPI_BSEND_OVERHEAD}
    ELSE {BSENDDATA_HEADER_TRUE_SIZE + 48}

\* the slots of a communicator and of a session
ScopedSlots == {"comm", "session"}

\* attach and detach on the slot of a communicator or of a session.  Their
\* entry points are not in this file (it has the wrappers of the process slot
\* only); as the specification describes them, they apply the attach and the
\* detach of this file to the slot of their scope.
ScopedAttach(t, s, buffer, buffer_size) ==
    /\ s \in ScopedSlots
    /\ Sequential
    /\ AttachCall(t, s, buffer, buffer_size)

ScopedDetach(t, s) ==
    /\ s \in ScopedSlots
    /\ Sequential
    /\ Detach(t, s)

\* the three slots in use, by a caller that makes one call at a time; a
\* communicator or a session is torn down by its finalize
SlotNext ==
    \/ \E t \in Threads, s \in UsedSlots : \E n \in SlotAttachSizes(t) :
          Sequential /\ AttachCall(t, s, BufferOf(t), n)
    \/ \E t \in Threads, s \in ScopedSlots : \E n \in SlotAttachSizes(t) :
          ScopedAttach(t, s, BufferOf(t), n)
    \/ \E t \in Threads : AttachStore(t)
    \/ \E t \in Threads : AttachRead(t)
    \/ \E t \in Threads : AttachCheck(t)
    \/ \E t \in Threads : AttachBody(t)
    \/ \E t \in Detachers, s \in UsedSlots : Sequential /\ Detach(t, s)
    \/ \E t \in Detachers, s \in ScopedSlots : ScopedDetach(t, s)
    \/ \E t \in Threads : DetachWait(t)
    \/ \E t \in Threads : DetachWaitFails(t)
    \/ \E t \in Detachers, s \in Slots : Finalize(t, s)
    \/ Sequential /\ Isend
    \/ \E b \in BagToSet(inflight) : Complete(b)

SlotSpec == Init /\ [][SlotNext]_vars

\* a message that is already packed: count bytes of MPI_PACKED
PackedMessage(count) ==
    [dtype |-> "MPI_PACKED", packsize |-> count, actual |-> count,
     pack_ok |-> TRUE, isend_ok |-> TRUE, request_ok |-> TRUE]

\* the sends at the edge of arena a: an empty one, one of exactly the payload
\* the usable region holds after one header, and one of one byte more
BoundarySizes(a) ==
    {n \in {0, a.buffer_size - BSENDDATA_HEADER_TRUE_SIZE,
             a.buffer_size - BSENDDATA_HEADER_TRUE_SIZE + 1} : n >= 0}

BoundaryMessages(a) == {PackedMessage(n) : n \in BoundarySizes(a)}

\* the process slot with sends at the edge of its arena, one call at a time
BoundaryNext ==
    \/ \E t \in Threads, s \in UsedSlots : \E n \in AttachSizes(t) :
          Sequential /\ AttachCall(t, s, BufferOf(t), n)
    \/ \E t \in Threads : AttachStore(t)
    \/ \E t \in Threads : AttachRead(t)
    \/ \E t \in Threads : AttachCheck(t)
    \/ \E t \in Threads : AttachBody(t)
    \/ \E t \in Detachers, s \in UsedSlots : Sequential /\ Detach(t, s)
    \/ \E t \in Threads : DetachWait(t)
    \/ \E t \in Threads : DetachWaitFails(t)
    \/ /\ Sequential
       /\ IsendWith(BoundaryMessages(bsendbuffer[ResolveSlot(bsendbuffer)]))
    \/ \E b \in BagToSet(inflight) : Complete(b)

BoundarySpec == Init /\ [][BoundaryNext]_vars

\* the process slot with the large buffers and every message of the driver,
\* one call at a time
SendNext ==
    \/ \E t \in Threads, s \in UsedSlots : \E n \in AttachSizes(t) :
          Sequential /\ AttachCall(t, s, BufferOf(t), n)
    \/ \E t \in Threads : AttachStore(t)
    \/ \E t \in Threads : AttachRead(t)
    \/ \E t \in Threads : AttachCheck(t)
    \/ \E t \in Threads : AttachBody(t)
    \/ \E t \in Detachers, s \in UsedSlots : Sequential /\ Detach(t, s)
    \/ \E t \in Threads : DetachWait(t)
    \/ \E t \in Threads : DetachWaitFails(t)
    \/ \E t \in Detachers, s \in UsedSlots : Sequential /\ Finalize(t, s)
    \/ Sequential /\ Isend
    \/ \E b \in BagToSet(inflight) : Complete(b)

SendSpec == Init /\ [][SendNext]_vars

-----------------------------------------------------------------------------
(* What the properties below look at.                                      *)

\* the slot holds a record with a buffer attached
Attached(s) == ~bsendbuffer[s].is_null /\ bsendbuffer[s].buffer # NULL

\* the blocks on the free list and on the active list of slot s
Avail(s) == SeqSet(AvailList(bsendbuffer[s], mem))

Active(s) == SeqSet(ActiveList(bsendbuffer[s], mem))

\* the first address after block p
End(p) == p + mem[p].total_size

\* the first address after the usable region of arena a
ArenaEnd(a) == a.buffer + a.buffer_size

\* the block whose payload starts at msgbuf
HeaderOf(msgbuf) == msgbuf - BSENDDATA_HEADER_TRUE_SIZE

\* the sends in flight out of the arena of slot s
InFlightOf(s) ==
    {b \in BagToSet(inflight) : RegionOf(b) = RegionOf(bsendbuffer[s].buffer)}

\* the two lists of arena a in the memory m: addresses and spans, in order
ListsOf(a, m) ==
    LET Spans(L) == [i \in 1..Len(L) |-> <<L[i], m[L[i]].total_size>>]
    IN [avail |-> Spans(AvailList(a, m)), active |-> Spans(ActiveList(a, m))]

-----------------------------------------------------------------------------
(* C1 as the spec states it: while an arena is attached, the block of every *)
(* send out of its region that is still in flight is on the active list,    *)
(* exactly once, and its header lies in the span of no free block: it was   *)
(* neither freed, nor merged into a free block, nor can a later send find   *)
(* it.                                                                      *)
C1_InFlightBlocksStayActive ==
    \A s \in Slots : Attached(s) =>
        \A b \in InFlightOf(s) :
            /\ HeaderOf(b) \in Active(s)
            /\ Cardinality({p \in Active(s) : mem[p].msgbuf = b}) = 1
            /\ \A q \in Avail(s) : ~(q <= HeaderOf(b) /\ HeaderOf(b) < End(q))

-----------------------------------------------------------------------------
(* C2: On an attached arena, whatever the attached pointer and size, the    *)
(* spans of the free and active blocks are pairwise disjoint and cover      *)
(* exactly the usable region [buffer, buffer + buffer_size): a block starts *)
(* at the base, every block ends at the start of another block or at the    *)
(* region's end, and no block extends past the region's end.                *)
C2_SpansPartitionUsableRegion ==
    \A s \in Slots : Attached(s) =>
        LET a == bsendbuffer[s]
            B == Avail(s) \cup Active(s)
        IN /\ a.buffer \in B
           /\ \A p \in B : /\ a.buffer <= p
                           /\ End(p) <= ArenaEnd(a)
                           /\ End(p) = ArenaEnd(a) \/ End(p) \in B
           /\ \A p, q \in B : p < q => End(p) <= q

-----------------------------------------------------------------------------
(* C3: On an attached arena every block is on exactly one of the two lists: *)
(* no block is on both, none is on neither, none appears twice on a list,   *)
(* and the prev and next links of each list agree with each other.          *)
C3_Linked(L, head) ==
    /\ Len(L) = Cardinality(SeqSet(L))
    /\ (L = <<>>) <=> (head = NULL)
    /\ L # <<>> => /\ L[1] = head
                   /\ mem[L[1]].prev = NULL
                   /\ mem[L[Len(L)]].next = NULL
    /\ \A i \in 1..(Len(L) - 1) : /\ mem[L[i]].next = L[i + 1]
                                  /\ mem[L[i + 1]].prev = L[i]

C3_EveryBlockOnOneList ==
    \A s \in Slots : Attached(s) =>
        LET a == bsendbuffer[s]
        IN /\ Avail(s) \cap Active(s) = {}
           /\ Avail(s) \cup Active(s) =
                 {p \in DOMAIN mem : RegionOf(p) = RegionOf(a.buffer)}
           /\ C3_Linked(AvailList(a, mem), a.avail)
           /\ C3_Linked(ActiveList(a, mem), a.active)

\* an arena with two blocks in use and a free block that came back from a
\* completed send
C3_Witness ==
    \E s \in Slots :
        /\ Attached(s)
        /\ Cardinality(Active(s)) >= 2
        /\ \E q \in Avail(s) : mem[q].request.state = "stale"

-----------------------------------------------------------------------------
(* C4: No two free blocks are adjacent in memory: every free block ends at  *)
(* the end of the arena or at the start of an active block.                 *)
C4_NoAdjacentFreeBlocks ==
    \A s \in Slots : Attached(s) =>
        \A b \in Avail(s) :
            End(b) = ArenaEnd(bsendbuffer[s]) \/ End(b) \in Active(s)

-----------------------------------------------------------------------------
(* C5: Following the next links from the head of the free list visits the   *)
(* blocks in strictly increasing address order.                             *)
C5_FreeListAddressOrdered ==
    \A s \in Slots : Attached(s) =>
        LET L == AvailList(bsendbuffer[s], mem)
        IN \A i \in 1..(Len(L) - 1) : L[i] < L[i + 1]

\* a reclaimed block was inserted in front of a free block it is not adjacent
\* to
C5_Witness ==
    \E s \in Slots :
        /\ Attached(s)
        /\ LET L == AvailList(bsendbuffer[s], mem)
           IN /\ Len(L) >= 2
              /\ mem[L[1]].request.state = "stale"
              /\ Active(s) # {}

-----------------------------------------------------------------------------
(* C6: Right after a successful attach of (ptr, size), aligned or not, the  *)
(* free list holds exactly one block, which starts at the first multiple of *)
(* align_sz at or after ptr and whose total_size is the usable capacity     *)
(* (size less the alignment advance), and the active list is empty.         *)
C6_AttachLeavesOneBlock ==
    (ret.op = "attach" /\ ret.code = "SUCCESS") =>
        LET a == bsendbuffer[ret.slot]
            base == CHOOSE x \in ret.ptr..(ret.ptr + align_sz - 1) :
                        x % align_sz = 0
            capacity == ret.size - (base - ret.ptr)
        IN /\ AvailList(a, mem) = <<base>>
           /\ mem[base].total_size = capacity
           /\ a.active = NULL

-----------------------------------------------------------------------------
(* C7 as the spec states it: a detach that succeeds after a successful      *)
(* attach of the slot returns exactly the pointer and size that attach was  *)
(* given (the latest one, when no detach came in between), and leaves the   *)
(* record with no list heads and no buffer.                                 *)
C7_DetachStep ==
    (/\ ret'.op = "detach"
     /\ ret'.code = "SUCCESS"
     /\ attached_with[ret'.slot] # <<NULL, 0>>)
    => /\ <<ret'.ptr, ret'.size>> = attached_with[ret'.slot]
       /\ bsendbuffer'[ret'.slot] = ZeroBuffer

C7_DetachReturnsOriginal == [][C7_DetachStep]_vars

-----------------------------------------------------------------------------
(* C8 as the spec states it: a detach hands the original region back only   *)
(* when no send out of it is in flight any more; while it still waits for   *)
(* a send, the record it drains keeps its arena and the region stays with   *)
(* the library.                                                             *)
C8_RegionReturnedAfterCompletion ==
    /\ (ret.op = "detach" /\ ret.code = "SUCCESS" /\ ret.ptr # NULL) =>
          \A b \in BagToSet(inflight) : RegionOf(b) # RegionOf(ret.ptr)
    /\ \A t \in Threads :
          (pc[t] = "detach_wait" /\ ~WaitReturns(mem, Tracked, frame[t].p)) =>
             LET b == RecordOf(t, frame[t].slot)
             IN /\ HasArena(b)
                /\ RegionOf(b.origbuffer) \in donated

-----------------------------------------------------------------------------
(* C9 as the spec states it: whenever a send returns an error, both lists   *)
(* of the resolved arena are what they were before the call.                *)
C9_ErrorStepKeepsLists ==
    (ret'.op = "isend" /\ ret'.code # "SUCCESS") =>
        ListsOf(bsendbuffer'[ret'.slot], mem') = ListsOf(bsendbuffer[ret'.slot], mem)

C9_ErrorLeavesListsIdentical == [][C9_ErrorStepKeepsLists]_vars

(* C9: what the code keeps.  A send that returns an error takes no block    *)
(* and starts no send: the active list afterwards is the one before less    *)
(* the blocks the call reclaimed, every one of them a completed send.  The  *)
(* lists are identical to those before the call when the call reclaimed     *)
(* nothing, and always on NO_BUFFER_ATTACHED and on PROGRESS_FAILED.        *)
C9_ErrorStepTakesNoBlock ==
    (ret'.op = "isend" /\ ret'.code # "SUCCESS") =>
        LET before == bsendbuffer[ret'.slot]
            after  == bsendbuffer'[ret'.slot]
            gone   == SeqSet(ActiveList(before, mem)) \ SeqSet(ActiveList(after, mem'))
        IN /\ SeqSet(ActiveList(after, mem')) \subseteq SeqSet(ActiveList(before, mem))
           /\ inflight' \sqsubseteq inflight
           /\ \A p \in gone : mem[p].msgbuf \notin Tracked'
           /\ Cardinality(gone) = ret'.reclaimed
           /\ gone = {} => ListsOf(after, mem') = ListsOf(before, mem)
           /\ ret'.code \in {"NO_BUFFER_ATTACHED", "PROGRESS_FAILED"} => gone = {}

C9_ErrorTakesNoBlock == [][C9_ErrorStepTakesNoBlock]_vars

\* a send found no space although it reclaimed a completed send on its way
C9_Witness ==
    /\ ret.op = "isend"
    /\ ret.code = "NO_BUFFER_SPACE"
    /\ ret.reclaimed > 0

-----------------------------------------------------------------------------
(* C10 as the spec states it: a send call never waits, whatever the other   *)
(* threads are doing; it returns after at most two searches.                *)
SendPermitted ==
    /\ \E t \in Threads : pc[t] = "idle"
    /\ ~Finalizing
    /\ finalized = {}

C10_SendNeverWaits ==
    /\ SendPermitted => ENABLED Isend
    /\ ret.op = "isend" => ret.finds <= 2

(* C10: what the code keeps.  Once it holds the mutex a send returns        *)
(* without waiting, after at most two searches and at most two polls (one   *)
(* before the first search, one between the two); it waits at its entry     *)
(* only for the mutex, which a draining detach holds.                       *)
C10_SendBoundedInsideMutex ==
    /\ (SendPermitted /\ mutex = 0) => ENABLED Isend
    /\ (SendPermitted /\ mutex # 0) => pc[mutex] = "detach_wait"
    /\ ret.op = "isend" =>
          /\ ret.finds <= 2
          /\ ret.polls <= 2
          /\ ret.code = "NO_BUFFER_SPACE" => ret.finds = 2

\* a send gave up after two searches and two polls while sends are in flight
C10_Witness ==
    /\ ret.op = "isend"
    /\ ret.code = "NO_BUFFER_SPACE"
    /\ ret.finds = 2
    /\ ret.polls = 2
    /\ inflight # EmptyBag

-----------------------------------------------------------------------------
(* C11: When the communicator's slot and the process slot both hold an      *)
(* attached arena, a send resolves the communicator's arena: a block it     *)
(* takes and the send it starts lie in the communicator's region, and the   *)
(* process arena's record, headers and both lists are unchanged.            *)
C11_SendStep ==
    (ret'.op = "isend" /\ Attached("comm") /\ Attached("process")) =>
        LET comm    == bsendbuffer["comm"]
            process == bsendbuffer["process"]
        IN /\ ret'.slot = "comm"
           /\ bsendbuffer'["process"] = process
           /\ ListsOf(process, mem') = ListsOf(process, mem)
           /\ \A p \in DOMAIN mem :
                 RegionOf(p) = RegionOf(process.buffer) =>
                    p \in DOMAIN mem' /\ mem'[p] = mem[p]
           /\ \A b \in BagToSet(inflight' (-) inflight) :
                 RegionOf(b) = RegionOf(comm.buffer)
           /\ ret'.code = "SUCCESS" =>
                 LET p == bsendbuffer'["comm"].active
                 IN /\ p # NULL
                    /\ RegionOf(p) = RegionOf(comm.buffer)
                    /\ mem'[p].msgbuf \in Tracked'

C11_SendDrawsFromCommArena == [][C11_SendStep]_vars

\* a send succeeded out of the communicator's arena while the process arena
\* is attached and has all of its space free
C11_Witness ==
    /\ ret.op = "isend"
    /\ ret.code = "SUCCESS"
    /\ ret.slot = "comm"
    /\ Attached("comm")
    /\ Attached("process")
    /\ bsendbuffer["process"].active = NULL
    /\ Active("comm") # {}

-----------------------------------------------------------------------------
(* C12 as the spec states it: a send uses the arena of the first slot, in   *)
(* the order communicator, session, process, that holds an attached arena,  *)
(* and it returns NO_BUFFER_ATTACHED exactly when none of the three does.   *)
FirstAttached ==
    IF Attached("comm") THEN "comm"
    ELSE IF Attached("session") THEN "session"
    ELSE "process"

\* the send failed for want of an attached buffer: at line 202, or at line
\* 290 out of a record without a buffer (the same error, capacity 0)
C12_NoBufferError ==
    \/ ret'.code = "NO_BUFFER_ATTACHED"
    \/ ret'.code = "NO_BUFFER_SPACE" /\ ~Attached(ret'.slot)

C12_SendStep ==
    ret'.op = "isend" =>
        /\ C12_NoBufferError <=> (\A s \in Slots : ~Attached(s))
        /\ (\E s \in Slots : Attached(s)) => ret'.slot = FirstAttached

C12_SendFallsThroughEmptySlots == [][C12_SendStep]_vars

-----------------------------------------------------------------------------
(* C13 as the spec states it: attaches on one slot take effect one after    *)
(* the other, so an attach completes successfully only on a slot that holds *)
(* no attached arena; of two racing attaches on an empty slot the second    *)
(* fails and never lays its region or a new record over the first.         *)
C13_AttachStep ==
    \A t \in Threads :
        /\ (pc[t] = "attach_cs" /\ pc'[t] = "idle") =>
              /\ ~frame[t].lost
              /\ ~Attached(frame[t].slot)
        /\ (pc[t] = "attach_calloc" /\ pc'[t] # "attach_calloc") =>
              ~Attached(frame[t].slot)

C13_AttachLinearizable == [][C13_AttachStep]_vars

-----------------------------------------------------------------------------
(* C14 as the spec states it: a thread is inside attach, detach or send,    *)
(* past its first read of the arena, only while it holds the guard, and it  *)
(* holds the guard at no other time.                                        *)
C14_GuardCoversEveryAccess ==
    \A t \in Threads :
        /\ pc[t] # "idle" => mutex = t
        /\ pc[t] = "idle" => mutex # t

-----------------------------------------------------------------------------
(* C15 as the spec states it: whenever the active list of an attached arena *)
(* is empty, the free list is one block that starts at the base and whose   *)
(* span is the whole usable region.                                         *)
C15_EmptyActiveMeansOneFreeBlock ==
    \A s \in Slots : (Attached(s) /\ bsendbuffer[s].active = NULL) =>
        LET a == bsendbuffer[s]
        IN /\ AvailList(a, mem) = <<a.buffer>>
           /\ mem[a.buffer].total_size = a.buffer_size

-----------------------------------------------------------------------------
(* C17: An attach with a size below MPI_BSEND_OVERHEAD whose record holds   *)
(* no arena is refused with BUFFER_TOO_SMALL before it reaches the critical *)
(* section; the refusal writes nothing, so the record is left with no       *)
(* origin region, no buffer and empty list heads; no arena is ever attached *)
(* with such a size.                                                        *)
C17_NoSmallArena ==
    /\ \A t \in Threads :
          pc[t] = "attach_cs" => frame[t].size >= MPI_BSEND_OVERHEAD
    /\ \A s \in Slots :
          Attached(s) => bsendbuffer[s].origbuffer_size >= MPI_BSEND_OVERHEAD

C17_AttachStep ==
    \A t \in Threads : (pc[t] = "attach_check" /\ pc'[t] # "attach_check") =>
        LET s == frame[t].slot
            b == RecordOf(t, s)
        IN /\ (~HasArena(b) /\ frame[t].size < MPI_BSEND_OVERHEAD) =>
                 /\ ret'.op = "attach"
                 /\ ret'.slot = s
                 /\ ret'.code = "BUFFER_TOO_SMALL"
                 /\ pc'[t] = "idle"
           /\ ret'.code = "BUFFER_TOO_SMALL" =>
                 /\ ret'.size = frame[t].size
                 /\ ret'.size < MPI_BSEND_OVERHEAD
                 /\ b = ZeroBuffer
                 /\ ~frame[t].lost => bsendbuffer'[s] = ZeroBuffer
                 /\ bsendbuffer' = bsendbuffer
                 /\ mem' = mem
                 /\ donated' = donated
                 /\ attached_with' = attached_with

C17_TooSmallAttachRefused == []C17_NoSmallArena /\ [][C17_AttachStep]_vars

\* an attach of MPI_BSEND_OVERHEAD - 1 bytes was refused
C17_Witness ==
    /\ ret.op = "attach"
    /\ ret.code = "BUFFER_TOO_SMALL"
    /\ ret.size = MPI_BSEND_OVERHEAD - 1
    /\ ~Attached(ret.slot)

-----------------------------------------------------------------------------
(* C18: An attach on a slot that holds an attached arena does not go to     *)
(* allocate a record, and when it comes to its checks with the arena still  *)
(* there it stops at the first one: it returns BUFFER_ALREADY_ATTACHED,     *)
(* whatever its size, and does not reach the size check or the critical     *)
(* section.  The refusal changes no record, no header and no send in        *)
(* flight.                                                                  *)
C18_AttachStep ==
    \A t \in Threads :
        /\ (pc[t] = "idle" /\ pc'[t] = "attach_calloc") =>
              ~Attached(frame'[t].slot)
        /\ (pc[t] = "attach_check" /\ pc'[t] # "attach_check") =>
              LET s == frame[t].slot
                  b == RecordOf(t, s)
              IN /\ HasArena(b) <=> (/\ ret'.op = "attach"
                                     /\ ret'.code = "BUFFER_ALREADY_ATTACHED")
                 /\ HasArena(b) =>
                       /\ ret'.slot = s
                       /\ pc'[t] = "idle"
                       /\ bsendbuffer' = bsendbuffer
                       /\ mem' = mem
                       /\ inflight' = inflight
                       /\ donated' = donated
                       /\ attached_with' = attached_with

C18_AttachOnAttachedRefused == [][C18_AttachStep]_vars

\* an attach was refused on an arena that has a send in flight
C18_Witness ==
    /\ ret.op = "attach"
    /\ ret.code = "BUFFER_ALREADY_ATTACHED"
    /\ Attached(ret.slot)
    /\ InFlightOf(ret.slot) # {}

-----------------------------------------------------------------------------
(* C16: A send returns NO_BUFFER_SPACE only if every active block that      *)
(* could hold it is still in flight when the call returns (or its handle    *)
(* was already given back by a detach): once the send of such a block has   *)
(* completed, the retry reclaims the block itself and succeeds.  A retry    *)
(* that follows the refusal directly succeeds only by reclaiming, and when  *)
(* the free list was empty and the one reclaimed block leaves no room for a *)
(* split, the retry takes that block whole, span unchanged.                 *)
C16_RetryStep ==
    (ret'.op = "isend" /\ ret'.code \in {"SUCCESS", "NO_BUFFER_SPACE"}) =>
        LET before == bsendbuffer[ret'.slot]
            after  == bsendbuffer'[ret'.slot]
            was    == SeqSet(ActiveList(before, mem))
            h      == after.active
        IN /\ ret'.code = "NO_BUFFER_SPACE" =>
                 \A p \in was : mem[p].size >= ret'.want =>
                     \/ mem[p].msgbuf \in Tracked'
                     \/ mem[p].request.released
           /\ (ret'.retried /\ ret'.code = "SUCCESS") => ret'.reclaimed >= 1
           /\ (ret'.code = "SUCCESS" /\ before.avail = NULL /\ ret'.reclaimed = 1) =>
                 /\ h \in was
                 /\ IF CanSplit(mem[h], AllocSize(mem'[h].count))
                    THEN mem'[h].total_size =
                            BSENDDATA_HEADER_TRUE_SIZE + AllocSize(mem'[h].count)
                    ELSE /\ mem'[h].total_size = mem[h].total_size
                         /\ after.avail = NULL

C16_RetryAfterCompletionSucceeds == [][C16_RetryStep]_vars

\* a send was refused for lack of space and its retry, the next call, took
\* whole the one block it reclaimed
C16_Witness ==
    /\ ret.op = "isend"
    /\ ret.code = "SUCCESS"
    /\ ret.retried
    /\ ret.want > 0
    /\ ret.reclaimed = 1
    /\ bsendbuffer[ret.slot].avail = NULL
    /\ Cardinality(Active(ret.slot)) >= 2

-----------------------------------------------------------------------------
(* C19: On an arena whose space is all free in one block, as attach leaves  *)
(* it, a send of exactly capacity - header size bytes succeeds; afterwards  *)
(* the active list is that one block, its span unchanged (not split), and   *)
(* the free list is empty.                                                  *)
Fresh(a) ==
    /\ a.buffer # NULL
    /\ a.active = NULL
    /\ AvailList(a, mem) = <<a.buffer>>

C19_SendStep ==
    (/\ ret'.op = "isend"
     /\ Fresh(bsendbuffer[ret'.slot])
     /\ ret'.want = bsendbuffer[ret'.slot].buffer_size - BSENDDATA_HEADER_TRUE_SIZE)
    => LET a     == bsendbuffer[ret'.slot]
           after == bsendbuffer'[ret'.slot]
       IN /\ ret'.code = "SUCCESS"
          /\ ActiveList(after, mem') = <<a.buffer>>
          /\ after.avail = NULL
          /\ mem'[a.buffer].total_size = mem[a.buffer].total_size
          /\ mem'[a.buffer].count = ret'.want
          /\ mem'[a.buffer].msgbuf \in Tracked'

C19_ExactFitTakesWholeArena == [][C19_SendStep]_vars

\* a send of capacity - header size bytes took the whole of a large arena
C19_Witness ==
    /\ ret.op = "isend"
    /\ ret.code = "SUCCESS"
    /\ Attached(ret.slot)
    /\ ret.want = bsendbuffer[ret.slot].buffer_size - BSENDDATA_HEADER_TRUE_SIZE
    /\ ret.want > MIN_BUFFER_BLOCK
    /\ bsendbuffer[ret.slot].avail = NULL
    /\ ActiveList(bsendbuffer[ret.slot], mem) = <<bsendbuffer[ret.slot].buffer>>

-----------------------------------------------------------------------------
(* C20 as the spec states it: on such an arena, whatever pointer was        *)
(* attached, a send of capacity - header size + 1 bytes returns             *)
(* NO_BUFFER_SPACE and leaves the one free block and the empty active list  *)
(* as they were.                                                            *)
C20_SendStep ==
    (/\ ret'.op = "isend"
     /\ Fresh(bsendbuffer[ret'.slot])
     /\ ret'.want = bsendbuffer[ret'.slot].buffer_size - BSENDDATA_HEADER_TRUE_SIZE + 1)
    => /\ ret'.code = "NO_BUFFER_SPACE"
       /\ bsendbuffer'[ret'.slot] = bsendbuffer[ret'.slot]
       /\ ListsOf(bsendbuffer'[ret'.slot], mem') = ListsOf(bsendbuffer[ret'.slot], mem)
       /\ inflight' = inflight

C20_OneByteMoreIsRefused == [][C20_SendStep]_vars

-----------------------------------------------------------------------------
(* C21 as the spec states it: in every reachable state every block of an    *)
(* attached arena, free or active, has a payload capacity of at least       *)
(* MIN_BUFFER_BLOCK bytes.                                                  *)
C21_EveryBlockHoldsMinimum ==
    \A s \in Slots : Attached(s) =>
        \A p \in Avail(s) \cup Active(s) :
            /\ mem[p].size >= MIN_BUFFER_BLOCK
            /\ mem[p].total_size >= BSENDDATA_HEADER_TRUE_SIZE + MIN_BUFFER_BLOCK

-----------------------------------------------------------------------------
(* C22 as the spec states it: in every reachable state, whatever size was   *)
(* attached, the span of every block, free or active, is a multiple of      *)
(* MAX_ALIGNMENT.                                                           *)
C22_SpansAreAligned ==
    \A s \in Slots : Attached(s) =>
        \A p \in Avail(s) \cup Active(s) :
            mem[p].total_size % MAX_ALIGNMENT = 0

-----------------------------------------------------------------------------
(* C23 as the spec states it: a finalize returns success and leaves the     *)
(* slot empty; when it returns, every send out of the slot's arena has been *)
(* waited for, so none is in flight; a finalize on a slot that is already   *)
(* empty changes nothing.                                                   *)
C23_FinalizeStep ==
    ret'.op = "finalize" =>
        /\ ret'.code = "SUCCESS"
        /\ bsendbuffer'[ret'.slot].is_null
        /\ ret'.slot \in finalized'
        /\ \A b \in BagToSet(inflight') :
              Attached(ret'.slot) =>
                 RegionOf(b) # RegionOf(bsendbuffer[ret'.slot].buffer)
        /\ bsendbuffer[ret'.slot].is_null =>
              /\ bsendbuffer' = bsendbuffer
              /\ mem' = mem
              /\ inflight' = inflight

C23_FinalizeDrainsAndEmpties == [][C23_FinalizeStep]_vars

-----------------------------------------------------------------------------
(* C24: Find is first-fit in address order.  On every free list that is     *)
(* reached and for every request size, find returns the free block of       *)
(* lowest address whose payload capacity is at least the size as asked, not *)
(* rounded, and nothing exactly when no free block is that large.  A send   *)
(* that reclaims nothing is refused for lack of space exactly when no free  *)
(* block holds it, otherwise it takes that lowest block; when the send      *)
(* fails after the search, both lists are as they were.                     *)
LowestFit(s, size) ==
    LET fits == {q \in Avail(s) : mem[q].size >= size}
    IN IF fits = {} THEN NULL ELSE CHOOSE q \in fits : \A r \in fits : q <= r

C24_SendStep ==
    /\ \A s \in Slots : Attached(s) =>
          \A q \in Avail(s) : \A n \in {mem[q].size - 1, mem[q].size, mem[q].size + 1} :
              n >= 0 => MPIR_Bsend_find_buffer(bsendbuffer[s], mem, n) = LowestFit(s, n)
    /\ (/\ ret'.op = "isend"
        /\ ret'.code \in {"SUCCESS", "NO_BUFFER_SPACE", "PACK_FAILED", "SEND_INIT_FAILED"}
        /\ ret'.reclaimed = 0)
       => LET s == ret'.slot
              p == LowestFit(s, ret'.want)
          IN /\ ret'.code = "NO_BUFFER_SPACE" <=> p = NULL
             /\ ret'.code = "SUCCESS" =>
                   /\ bsendbuffer'[s].active = p
                   /\ mem'[p].msgbuf \in Tracked'
             /\ ret'.code # "SUCCESS" =>
                   ListsOf(bsendbuffer'[s], mem') = ListsOf(bsendbuffer[s], mem)

C24_FindIsFirstFit == [][C24_SendStep]_vars

\* a send passed over a free block of lower address that was too small and
\* took the first one that fits
C24_Witness ==
    /\ ret.op = "isend"
    /\ ret.code = "SUCCESS"
    /\ ret.reclaimed = 0
    /\ Attached(ret.slot)
    /\ \E q \in Avail(ret.slot) :
          /\ q < bsendbuffer[ret.slot].active
          /\ mem[q].size < ret.want

-----------------------------------------------------------------------------
(* C25: A send that takes the free block p for n packed bytes, n_aligned    *)
(* being n rounded up to MAX_ALIGNMENT, splits p exactly when n_aligned +   *)
(* header + MIN_BUFFER_BLOCK <= the capacity of p.  On a split p keeps the  *)
(* span header + n_aligned and a new free block of the rest of the old span *)
(* stands at p + header + n_aligned in p's place on the free list;          *)
(* otherwise p leaves the free list with its span unchanged.  Either way p  *)
(* becomes the head of the active list.  Taking 100 bytes from a block of   *)
(* span 4096 leaves spans 176 and 3920.                                     *)
C25_Example ==
    LET a0 == AttachedBuffer(ZeroBuffer, RegionLen, RegionLen)
        m0 == Put(<< >>, RegionLen, FirstBlock(RegionLen, RegionLen))
        tk == MPIR_Bsend_take_buffer(a0, m0, RegionLen, 100)
    IN /\ tk.m[RegionLen].total_size = 176
       /\ tk.m[RegionLen + 176].total_size = 3920
       /\ tk.a.active = RegionLen
       /\ tk.a.avail = RegionLen + 176

C25_TakeStep ==
    /\ C25_Example
    /\ (ret'.op = "isend" /\ ret'.code = "SUCCESS" /\ ret'.reclaimed = 0) =>
          LET before == bsendbuffer[ret'.slot]
              after  == bsendbuffer'[ret'.slot]
              p      == after.active
              used   == BSENDDATA_HEADER_TRUE_SIZE + AllocSize(mem'[p].count)
              free   == AvailList(before, mem)
          IN /\ p \in SeqSet(free)
             /\ ActiveList(after, mem') = <<p>> \o ActiveList(before, mem)
             /\ IF used + MIN_BUFFER_BLOCK <= mem[p].size
                THEN /\ mem'[p].total_size = used
                     /\ mem'[p + used].total_size = mem[p].total_size - used
                     /\ AvailList(after, mem') =
                           [i \in 1..Len(free) |->
                               IF free[i] = p THEN p + used ELSE free[i]]
                ELSE /\ mem'[p].total_size = mem[p].total_size
                     /\ AvailList(after, mem') = SelectSeq(free, LAMBDA q : q # p)
             /\ \A q \in SeqSet(free) \ {p} : mem'[q].total_size = mem[q].total_size

C25_TakeSplitsOrTakesWhole == [][C25_TakeStep]_vars

\* one send split its block and a later one took a block whole although the
\* block had room left beyond the header of a remainder
C25_Witness ==
    /\ ret.op = "isend"
    /\ ret.code = "SUCCESS"
    /\ ret.reclaimed = 0
    /\ Attached(ret.slot)
    /\ LET p == bsendbuffer[ret.slot].active
       IN /\ mem[p].size >= AllocSize(mem[p].count) + BSENDDATA_HEADER_TRUE_SIZE
          /\ mem[p].next # NULL
          /\ End(mem[p].next) = p

-----------------------------------------------------------------------------
(* C26 as the spec states it: in every reachable state every block on the   *)
(* free list of an attached arena holds no send handle: the request field   *)
(* of its header is null, neither the handle of a finished send nor a value *)
(* that was never written.                                                  *)
C26_FreeBlocksHoldNoHandle ==
    \A s \in Slots : Attached(s) =>
        \A q \in Avail(s) : mem[q].request.state = "null"

-----------------------------------------------------------------------------
(* C27: In every reachable state, for every active block of an attached     *)
(* arena the count of packed bytes is at most the block's payload capacity: *)
(* the packed bytes end inside the block and touch no other block's header  *)
(* or payload, also when the block was carved by the count pack wrote and   *)
(* not by the pack size the search used.                                    *)
C27_PackedBytesFitTheBlock ==
    \A s \in Slots : Attached(s) =>
        \A p \in Active(s) :
            /\ mem[p].count >= 0
            /\ mem[p].count <= mem[p].size
            /\ mem[p].msgbuf = p + BSENDDATA_HEADER_TRUE_SIZE
            /\ mem[p].msgbuf + mem[p].count <= End(p)
            /\ \A q \in (Avail(s) \cup Active(s)) \ {p} :
                  ~(q < mem[p].msgbuf + mem[p].count /\ mem[p].msgbuf < End(q))

\* a send whose pack wrote fewer bytes than announced was carved by the
\* count written, and a free block follows it
C27_Witness ==
    /\ ret.op = "isend"
    /\ ret.code = "SUCCESS"
    /\ Attached(ret.slot)
    /\ LET p == bsendbuffer[ret.slot].active
       IN /\ mem[p].count > 0
          /\ mem[p].count < ret.want
          /\ mem[p].size = AllocSize(mem[p].count)
          /\ End(p) \in Avail(ret.slot)

-----------------------------------------------------------------------------
(* C28 as the spec states it: the arena gives its reference to a handle     *)
(* back once, when the block is reclaimed or when a detach drains it, and   *)
(* never while the block stays on the active list of an arena that stays    *)
(* attached.  So whenever no call is inside the arena, no active block of   *)
(* an attached arena holds a handle whose reference was already given back  *)
(* (a later reclaim or drain of that block would give it back again).       *)
C28_ActiveHandlesAreHeld ==
    mutex = 0 =>
        \A s \in Slots : Attached(s) =>
            \A p \in Active(s) :
                /\ mem[p].request.state = "live"
                /\ ~mem[p].request.released

-----------------------------------------------------------------------------
(* C29 as the spec states it: when a wait fails during the drain of a       *)
(* detach, the detach returns the error with the mutex released and hands   *)
(* no region back, and the arena stays attached: from the entry of the call *)
(* to that return, every step leaves the slot's record (original region,    *)
(* base, capacity, list heads), the blocks and spans of both lists and the  *)
(* set of donated regions as they were.                                     *)
C29_FailedWaitStep ==
    \A t \in Threads : (pc[t] = "detach_wait" /\ ~frame[t].fin) =>
        LET s == frame[t].slot
        IN /\ (pc'[t] = "detach_wait" \/ ret'.code = "WAIT_FAILED") =>
                 /\ bsendbuffer'[s] = bsendbuffer[s]
                 /\ ListsOf(bsendbuffer'[s], mem') = ListsOf(bsendbuffer[s], mem)
                 /\ attached_with'[s] = attached_with[s]
                 /\ donated' = donated
           /\ ret'.code = "WAIT_FAILED" =>
                 /\ ret'.op = "detach"
                 /\ ret'.slot = s
                 /\ ret'.ptr = NULL
                 /\ ret'.size = 0
                 /\ mutex' = 0
                 /\ pc'[t] = "idle"
                 /\ ~bsendbuffer'[s].is_null
                 /\ bsendbuffer'[s].buffer # NULL
                 /\ bsendbuffer'[s].origbuffer = attached_with'[s][1]
                 /\ bsendbuffer'[s].origbuffer_size = attached_with'[s][2]
                 /\ RegionOf(bsendbuffer'[s].origbuffer) \in donated'
                 /\ bsendbuffer'[s].active # NULL

C29_FailedWaitKeepsArenaAttached == [][C29_FailedWaitStep]_vars

====
